---------------------------- MODULE Spec2Model ----------------------------
(***************************************************************************)
(* A model of app.py, the Bookster -> iCal generator: the normalisation of *)
(* one raw booking (map_booking_to_event_data and its helpers), the        *)
(* rendering loop of render_calendar, and generate_and_write with its      *)
(* fail-safe handler.                                                      *)
(*                                                                         *)
(* Python values are tagged records [t |-> <type>, v |-> <payload>].       *)
(* Strings are sequences of one-character strings, so that lower(),        *)
(* strip(), substring tests and formatting are computed, not assumed.      *)
(* Dates are day numbers since 1970-01-01 (proleptic Gregorian).           *)
(* Floats are counted in ticks of 5e-10, so that the 1e-9 threshold of     *)
(* _amount_paid separates representable values.                            *)
(***************************************************************************)
EXTENDS Integers, Sequences, FiniteSets, TLC

VARIABLES
    pc,            \* position of the operation in progress
    today,         \* the wall clock's date (read by dateutil for missing fields)
    value,         \* _amount_paid: first argument
    balance,       \* _amount_paid: second argument
    paid,          \* _amount_paid: result
    raw,           \* map_booking_to_event_data: the raw record b
    mapped,        \* map_booking_to_event_data: its result
    bookings,      \* render_calendar: the list of raw records
    include_mid,   \* render_calendar: the include_mid flag
    idx,           \* render_calendar: index of the next booking of the loop
    cal,           \* render_calendar: events added to the Calendar so far
    runs,          \* results of the render_calendar calls completed so far
    property_ids,  \* generate_and_write: the property ids asked for
    pid_i,         \* generate_and_write: index of the property in progress
    base,          \* generate_and_write: the list fetched for that property
    item_i,        \* generate_and_write: index of the next item of base
    enriched,      \* generate_and_write: the merged records so far
    files,         \* the output directory: file name -> content
    index_html,    \* what index.html holds
    written,       \* generate_and_write: the list it returns
    exc            \* the exception the handler caught, if any

amountVars == <<value, balance, paid>>
mapVars    == <<raw, mapped>>
renderVars == <<bookings, include_mid, idx, cal, runs>>
genVars    == <<property_ids, pid_i, base, item_i, enriched, files, index_html,
                written, exc>>
vars       == <<pc, today, value, balance, paid, raw, mapped,
                bookings, include_mid, idx, cal, runs,
                property_ids, pid_i, base, item_i, enriched, files, index_html,
                written, exc>>

---------------------------------------------------------------------------
(* Python values *)

None      == [t |-> "none", v |-> 0]
Raise     == [t |-> "raise", v |-> 0]          \* an exception propagates
PyInt(n)  == [t |-> "int", v |-> n]
PyFloat(n) == [t |-> "float", v |-> n]          \* n ticks
PyStr(s)  == [t |-> "str", v |-> s]
PyDate(d) == [t |-> "date", v |-> d]
PyDateTime(d) == [t |-> "datetime", v |-> d]    \* time of day dropped by .date()
PyList(l) == [t |-> "list", v |-> l]

\* bool(x)
Truthy(x) ==
    CASE x.t = "none" -> FALSE
      [] x.t = "int" -> x.v # 0
      [] x.t = "float" -> x.v # 0
      [] x.t = "str" -> Len(x.v) > 0
      [] x.t = "list" -> Len(x.v) > 0
      [] OTHER -> TRUE

\* a or b
Or(a, b) == IF Truthy(a) THEN a ELSE b

\* dict.get(key): None when the key is missing
Get(b, key) == IF key \in DOMAIN b THEN b[key] ELSE None

\* dict.get(key, default)
GetDefault(b, key, default) == IF key \in DOMAIN b THEN b[key] ELSE default

---------------------------------------------------------------------------
(* str methods *)

UpperCase == <<"A", "B", "C", "D", "E", "F", "G", "H", "I", "J", "K", "L", "M",
               "N", "O", "P", "Q", "R", "S", "T", "U", "V", "W", "X", "Y", "Z">>
LowerCase == <<"a", "b", "c", "d", "e", "f", "g", "h", "i", "j", "k", "l", "m",
               "n", "o", "p", "q", "r", "s", "t", "u", "v", "w", "x", "y", "z">>
Digits    == <<"0", "1", "2", "3", "4", "5", "6", "7", "8", "9">>

IndexOf(c, seq) ==
    IF \E i \in 1..Len(seq) : seq[i] = c
    THEN CHOOSE i \in 1..Len(seq) : seq[i] = c
    ELSE 0

LowerChar(c) == IF IndexOf(c, UpperCase) > 0 THEN LowerCase[IndexOf(c, UpperCase)] ELSE c
UpperChar(c) == IF IndexOf(c, LowerCase) > 0 THEN UpperCase[IndexOf(c, LowerCase)] ELSE c

RECURSIVE MapChars(_, _)
MapChars(s, toLower) ==
    IF s = <<>> THEN <<>>
    ELSE <<IF toLower THEN LowerChar(Head(s)) ELSE UpperChar(Head(s))>>
         \o MapChars(Tail(s), toLower)

lower(s) == MapChars(s, TRUE)
upper(s) == MapChars(s, FALSE)
capitalize(s) == IF s = <<>> THEN <<>> ELSE <<UpperChar(Head(s))>> \o lower(Tail(s))

IsSpace(c) == c \in {" ", "\t", "\n", "\r"}

RECURSIVE lstrip(_)
lstrip(s) == IF s # <<>> /\ IsSpace(Head(s)) THEN lstrip(Tail(s)) ELSE s

RECURSIVE rstrip(_)
rstrip(s) ==
    IF s # <<>> /\ IsSpace(s[Len(s)]) THEN rstrip(SubSeq(s, 1, Len(s) - 1)) ELSE s

strip(s) == rstrip(lstrip(s))

\* sub in s
Contains(sub, s) ==
    \E k \in 0..(Len(s) - Len(sub)) : SubSeq(s, k + 1, k + Len(sub)) = sub

StartsWith(s, prefix) ==
    Len(s) >= Len(prefix) /\ SubSeq(s, 1, Len(prefix)) = prefix

\* sep.join(parts)
RECURSIVE Join(_, _)
Join(sep, parts) ==
    IF parts = <<>> THEN <<>>
    ELSE IF Len(parts) = 1 THEN parts[1]
    ELSE parts[1] \o sep \o Join(sep, Tail(parts))

\* str(n) of a natural number, and of an integer
RECURSIVE NatStr(_)
NatStr(n) == IF n < 10 THEN <<Digits[n + 1]>> ELSE NatStr(n \div 10) \o <<Digits[(n % 10) + 1]>>

IntStr(n) == IF n < 0 THEN <<"-">> \o NatStr(-n) ELSE NatStr(n)

\* n written with at least w digits (zero padded)
RECURSIVE Pad(_, _)
Pad(s, w) == IF Len(s) >= w THEN s ELSE Pad(<<"0">> \o s, w)

IsDigits(s) == s # <<>> /\ \A i \in 1..Len(s) : IndexOf(s[i], Digits) > 0

RECURSIVE NatOf(_)
NatOf(s) == IF s = <<>> THEN 0 ELSE NatOf(SubSeq(s, 1, Len(s) - 1)) * 10 + (IndexOf(s[Len(s)], Digits) - 1)

RECURSIVE Pow10(_)
Pow10(k) == IF k = 0 THEN 1 ELSE 10 * Pow10(k - 1)

\* the text after an optional sign, and the sign's factor
Unsigned(s) == IF s # <<>> /\ Head(s) \in {"+", "-"} THEN Tail(s) ELSE s
SignOf(s)   == IF s # <<>> /\ Head(s) = "-" THEN -1 ELSE 1

---------------------------------------------------------------------------
(* _amount_paid *)

EpsTicks     == 2               \* 1e-9, in ticks of 5e-10
TicksPerCent == 20000000        \* 0.01, in ticks
TicksPerUnit == 100 * TicksPerCent

\* float(str): [ws][sign]digits[.digits][ws] over the model's vocabulary;
\* any other text raises ValueError
ParseFloat(s) ==
    LET body == Unsigned(strip(s))
        dot  == IndexOf(".", body)
        ip   == IF dot = 0 THEN body ELSE SubSeq(body, 1, dot - 1)
        fp   == IF dot = 0 THEN <<>> ELSE SubSeq(body, dot + 1, Len(body))
        ok   == /\ (ip = <<>> \/ IsDigits(ip))
                /\ (fp = <<>> \/ IsDigits(fp))
                /\ (ip # <<>> \/ fp # <<>>)
    IN IF ~ok THEN Raise
       ELSE PyFloat(SignOf(strip(s)) *
                (NatOf(ip) * TicksPerUnit + NatOf(fp) * (TicksPerUnit \div Pow10(Len(fp)))))

\* float(x)
ToFloat(x) ==
    CASE x.t = "float" -> x
      [] x.t = "int" -> PyFloat(x.v * TicksPerUnit)
      [] x.t = "str" -> ParseFloat(x.v)
      [] OTHER -> Raise                        \* TypeError: None, list, date

Abs(n) == IF n < 0 THEN -n ELSE n
Max(a, b) == IF b > a THEN b ELSE a

\* _amount_paid returning the difference as it is
AmountPaidUnclamped(val, bal) ==
    IF ToFloat(val) = Raise \/ ToFloat(bal) = Raise THEN None
    ELSE PyFloat(ToFloat(val).v - ToFloat(bal).v)

_amount_paid(val, bal) ==
    LET v == ToFloat(val)
        b == ToFloat(bal)
    IN IF v = Raise \/ b = Raise THEN None
       ELSE LET diff == v.v - b.v
                snapped == IF Abs(diff) < EpsTicks THEN 0 ELSE diff
            IN PyFloat(Max(0, snapped))


---------------------------------------------------------------------------
(* datetime.date: day numbers and the civil calendar *)

SecondsPerDay == 86400

IsLeap(y) == (y % 4 = 0 /\ y % 100 # 0) \/ y % 400 = 0

DaysInMonth(y, m) ==
    CASE m = 2 -> IF IsLeap(y) THEN 29 ELSE 28
      [] m \in {4, 6, 9, 11} -> 30
      [] OTHER -> 31

\* date(y, m, d) as a day number
DaysFromCivil(y, m, d) ==
    LET yy  == IF m <= 2 THEN y - 1 ELSE y
        era == yy \div 400
        yoe == yy - era * 400
        mp  == IF m > 2 THEN m - 3 ELSE m + 9
        doy == (153 * mp + 2) \div 5 + d - 1
        doe == yoe * 365 + yoe \div 4 - yoe \div 100 + doy
    IN era * 146097 + doe - 719468

\* the (year, month, day) of a day number
CivilFromDays(z) ==
    LET zz  == z + 719468
        era == zz \div 146097
        doe == zz - era * 146097
        yoe == (doe - doe \div 1460 + doe \div 36524 - doe \div 146096) \div 365
        doy == doe - (365 * yoe + yoe \div 4 - yoe \div 100)
        mp  == (5 * doy + 2) \div 153
        d   == doy - (153 * mp + 2) \div 5 + 1
        m   == IF mp < 10 THEN mp + 3 ELSE mp - 9
        y   == yoe + era * 400 + (IF m <= 2 THEN 1 ELSE 0)
    IN [year |-> y, month |-> m, day |-> d]

\* date.isoformat(): YYYY-MM-DD
isoformat(z) ==
    LET c == CivilFromDays(z)
    IN Pad(NatStr(c.year), 4) \o <<"-">> \o Pad(NatStr(c.month), 2)
       \o <<"-">> \o Pad(NatStr(c.day), 2)

\* dateutil.parser.parse(text).date() at wall-clock date now, for the texts
\* of the model: "YYYY-MM-DD" is that date; "YYYY-MM" names no day, and
\* dateutil fills the missing day from its default, datetime.now(), capped at
\* the month's last day; every other text of the model raises ParserError.
ParseYearMonth(s, y, m, now) ==
    IF Len(s) = 7
    THEN PyDate(DaysFromCivil(y, m, IF CivilFromDays(now).day > DaysInMonth(y, m)
                                    THEN DaysInMonth(y, m)
                                    ELSE CivilFromDays(now).day))
    ELSE IF s[8] = "-" /\ IsDigits(SubSeq(s, 9, 10))
            /\ NatOf(SubSeq(s, 9, 10)) \in 1..DaysInMonth(y, m)
    THEN PyDate(DaysFromCivil(y, m, NatOf(SubSeq(s, 9, 10))))
    ELSE Raise

ParseDateText(s, now) ==
    IF /\ Len(s) \in {7, 10}
       /\ IsDigits(SubSeq(s, 1, 4)) /\ s[5] = "-" /\ IsDigits(SubSeq(s, 6, 7))
       /\ NatOf(SubSeq(s, 6, 7)) \in 1..12
    THEN ParseYearMonth(s, NatOf(SubSeq(s, 1, 4)), NatOf(SubSeq(s, 6, 7)), now)
    ELSE Raise

dtparse_parse(text, now) == ParseDateText(strip(text), now)

\* an int too large for datetime.utcfromtimestamp (such as 10**18)
PyBigInt == [t |-> "bigint", v |-> 0]

\* int(x) of a float: truncation toward zero
TruncUnits(ticks) ==
    IF ticks >= 0 THEN ticks \div TicksPerUnit ELSE -((-ticks) \div TicksPerUnit)

\* try: ... except Exception: return None
NoneIfRaised(r) == IF r = Raise THEN None ELSE r

_to_date(x, now) ==
    CASE x.t = "none" -> None
      [] x.t = "date" -> x
      [] x.t = "datetime" -> PyDate(x.v)
      [] x.t = "int" -> PyDate(x.v \div SecondsPerDay)
      [] x.t = "float" -> PyDate(TruncUnits(x.v) \div SecondsPerDay)
      [] x.t = "bigint" -> None                 \* utcfromtimestamp raises
      [] x.t = "str" -> NoneIfRaised(dtparse_parse(x.v, now))
      [] OTHER -> None                          \* str(list) is no date

---------------------------------------------------------------------------
(* helpers of the mapping *)

S_confirmed == <<"c", "o", "n", "f", "i", "r", "m", "e", "d">>
S_Guest     == <<"G", "u", "e", "s", "t">>
S_extra     == <<"e", "x", "t", "r", "a">>
S_None      == <<"N", "o", "n", "e">>

\* (b.get(key) or "")
StrOrEmpty(b, key) == Or(Get(b, key), PyStr(<<>>))

\* x.strip(), x.lower(), x.upper(): AttributeError unless x is a str
Stripped(x) == IF x.t = "str" THEN PyStr(strip(x.v)) ELSE Raise
Lowered(x)  == IF x.t = "str" THEN PyStr(lower(x.v)) ELSE Raise
Uppered(x)  == IF x.t = "str" THEN PyStr(upper(x.v)) ELSE Raise

\* str(x) as an f-string writes it, for the values that reach one
Format(x) ==
    CASE x.t = "str" -> x.v
      [] x.t = "int" -> IntStr(x.v)
      [] x.t = "none" -> S_None
      [] OTHER -> <<"?">>

PhoneKeys ==
    <<"customer_tel_mobile", "customer_tel_day", "customer_tel_evening",
      "customer_mobile", "customer_phone">>

RECURSIVE BestPhoneFrom(_, _)
BestPhoneFrom(b, keys) ==
    IF keys = <<>> THEN None
    ELSE LET val == Stripped(StrOrEmpty(b, Head(keys)))
         IN IF val = Raise THEN Raise
            ELSE IF Truthy(val) THEN val
            ELSE BestPhoneFrom(b, Tail(keys))

_best_phone(b) == BestPhoneFrom(b, PhoneKeys)

\* int(x): ValueError or TypeError is Raise
ToInt(x) ==
    CASE x.t = "int" -> x
      [] x.t = "float" -> PyInt(TruncUnits(x.v))
      [] x.t = "str" -> LET s == strip(x.v)
                        IN IF IsDigits(Unsigned(s)) THEN PyInt(SignOf(s) * NatOf(Unsigned(s)))
                           ELSE Raise
      [] OTHER -> Raise

PartySizeOf(v) ==
    IF v.t = "none" \/ (v.t = "str" /\ strip(v.v) = <<>>) THEN None
    ELSE NoneIfRaised(ToInt(v))

_party_size(b) == PartySizeOf(Get(b, "party_size"))

EXTRA_ALLOWLIST ==
    << <<"p", "e", "t", "s">>,
       <<"p", "e", "t">>,
       <<"d", "o", "g">>,
       <<"d", "o", "g", "s">>,
       <<"c", "a", "t">>,
       <<"c", "a", "t", "s">>,
       <<"h", "i", "g", "h", " ", "c", "h", "a", "i", "r">>,
       <<"i", "n", "f", "a", "n", "t", " ", "c", "o", "t">>,
       <<"c", "o", "t">>,
       <<"t", "w", "i", "n", " ", "b", "e", "d", "s">>,
       <<"t", "w", "i", "n", " ", "b", "e", "d">>,
       <<"t", "w", "i", "n", "s">> >>

AIRBNB_LABELS ==
    { <<"a", "d", "u", "l", "t">>,
      <<"c", "h", "i", "l", "d">>,
      <<"i", "n", "f", "a", "n", "t">>,
      <<"b", "a", "b", "y">> }

\* the loop of _filter_extras over a list: the list picked, or Raise when
\* the name of an extra is no str
RECURSIVE FilterExtrasFrom(_)
FilterExtrasFrom(lines) ==
    IF lines = <<>> THEN PyList(<<>>)
    ELSE LET ln   == Head(lines)
             rest == FilterExtrasFrom(Tail(lines))
         IN IF ~(ln.t = "dict" /\ Get(ln.v, "type") = PyStr(S_extra)) THEN rest
            ELSE LET name == Stripped(Or(Get(ln.v, "name"), Or(Get(ln.v, "title"), PyStr(<<>>))))
                 IN IF name = Raise \/ rest = Raise THEN Raise
                    ELSE IF ~Truthy(name) THEN rest
                    ELSE IF \E k \in 1..Len(EXTRA_ALLOWLIST) :
                                 Contains(EXTRA_ALLOWLIST[k], lower(name.v))
                         THEN LET qty == Or(Get(ln.v, "quantity"), Get(ln.v, "qty"))
                              IN PyList(<<IF Truthy(qty)
                                          THEN name.v \o <<" ", "x">> \o Format(qty)
                                          ELSE name.v>> \o rest.v)
                    ELSE rest

_filter_extras(lines) ==
    IF lines.t = "list" THEN FilterExtrasFrom(lines.v) ELSE PyList(<<>>)

---------------------------------------------------------------------------
(* string constants of the mapping and the rendering *)

S_RR == <<"R", "R">>
S_BO == <<"B", "O">>
S_BB == <<"B", "B">>
S_158596 == <<"1", "5", "8", "5", "9", "6">>
S_158595 == <<"1", "5", "8", "5", "9", "5">>
S_158497 == <<"1", "5", "8", "4", "9", "7">>
S_redroofs_by_the_woods ==
    <<"r", "e", "d", "r", "o", "o", "f", "s", " ", "b", "y", " ", "t", "h",
      "e", " ", "w", "o", "o", "d", "s">>
S_redroofs == <<"r", "e", "d", "r", "o", "o", "f", "s">>
S_barn_owl == <<"b", "a", "r", "n", " ", "o", "w", "l">>
S_bumblebee == <<"b", "u", "m", "b", "l", "e", "b", "e", "e">>
S_IN_prefix == <<"I", "N", ":", " ">>
S_OUT_prefix == <<"0", "U", "T", ":", " ">>
S_url_head ==
    <<"h", "t", "t", "p", "s", ":", "/", "/", "a", "p", "p", ".", "b", "o",
      "o", "k", "s", "t", "e", "r", "h", "q", ".", "c", "o", "m", "/", "b",
      "o", "o", "k", "i", "n", "g", "s", "/">>
S_url_tail == <<"/", "v", "i", "e", "w">>
S_Email == <<"E", "m", "a", "i", "l", ":", " ">>
S_Mobile == <<"M", "o", "b", "i", "l", "e", ":", " ">>
S_Guests_in_party ==
    <<"G", "u", "e", "s", "t", "s", " ", "i", "n", " ", "p", "a", "r", "t",
      "y", ":", " ">>
S_Extras == <<"E", "x", "t", "r", "a", "s", ":", " ">>
S_Party_details ==
    <<"P", "a", "r", "t", "y", " ", "d", "e", "t", "a", "i", "l", "s">>
S_Property == <<"P", "r", "o", "p", "e", "r", "t", "y", ":", " ">>
S_Channel == <<"C", "h", "a", "n", "n", "e", "l", ":", " ">>
S_Amount_paid ==
    <<"A", "m", "o", "u", "n", "t", " ", "p", "a", "i", "d", " ", "t", "o",
      " ", "u", "s", ":", " ">>
S_Booking == <<"B", "o", "o", "k", "i", "n", "g", ":", " ">>
S_Guest_booking ==
    <<"G", "u", "e", "s", "t", " ", "b", "o", "o", "k", "i", "n", "g">>
S_uid_head == <<"r", "e", "d", "r", "o", "o", "f", "s", "-">>
S_Guest_n == <<"G", "u", "e", "s", "t", " ">>
S_age == <<" ", "(", "a", "g", "e", " ">>
K_IN == <<"I", "N">>
K_MID == <<"M", "I", "D">>
K_OUT == <<"O", "U", "T">>

PyDict(d) == [t |-> "dict", v |-> d]

---------------------------------------------------------------------------
(* _parse_party_list *)

\* norm(s): (s or "").strip()
Norm(x) == Stripped(Or(x, PyStr(<<>>)))

\* the category of a person: from the type, or from a name that is a label;
\* <<>> is None
PartyCategory(fn, ln, tcat) ==
    LET fromType == IF tcat \in AIRBNB_LABELS THEN capitalize(tcat) ELSE <<>>
        fromFn   == IF lower(fn) \in AIRBNB_LABELS THEN capitalize(fn) ELSE fromType
    IN IF lower(ln) \in AIRBNB_LABELS /\ fromFn = <<>> THEN capitalize(ln) ELSE fromFn

\* join_name of the name parts that are no labels
PartyFullName(fn, ln) ==
    strip((IF lower(fn) \in AIRBNB_LABELS THEN <<>> ELSE fn) \o <<" ">>
          \o (IF lower(ln) \in AIRBNB_LABELS THEN <<>> ELSE ln))

\* the tuple (display, category, age) appended to raw; an age of 0 is None
PartyTuple(full, cat, age) ==
    [nm  |-> IF full = <<>> /\ cat # <<>> THEN cat ELSE full,
     cat |-> cat,
     age |-> IF age.t = "int" /\ age.v > 0 THEN age.v ELSE 0]

PartyEntryOf(fn, ln, tc, age) ==
    IF fn = Raise \/ ln = Raise \/ tc = Raise THEN Raise
    ELSE PyDict(PartyTuple(PartyFullName(fn.v, ln.v),
                           PartyCategory(fn.v, ln.v, lower(tc.v)), age))

\* one person of the party, or Raise when a name or type is no str
PartyEntry(person) ==
    PartyEntryOf(Norm(GetDefault(person, "forename", PyStr(<<>>))),
                 Norm(GetDefault(person, "surname", PyStr(<<>>))),
                 Norm(GetDefault(person, "type", PyStr(<<>>))),
                 ToInt(GetDefault(person, "age", PyInt(0))))

ConsEntry(entry, rest) ==
    IF entry = Raise \/ rest = Raise THEN Raise ELSE PyList(<<entry.v>> \o rest.v)

\* the list raw of _parse_party_list, or Raise
RECURSIVE PartyEntries(_)
PartyEntries(party) ==
    IF party = <<>> THEN PyList(<<>>)
    ELSE IF Head(party).t # "dict" THEN PartyEntries(Tail(party))
    ELSE ConsEntry(PartyEntry(Head(party).v), PartyEntries(Tail(party)))

MoveToFront(entries, k) ==
    <<entries[k]>> \o SubSeq(entries, 1, k - 1) \o SubSeq(entries, k + 1, Len(entries))

FirstOf(hits) == CHOOSE i \in hits : \A j \in hits : i <= j

\* entries with the lead guest first
LeadFirst(entries, lead) ==
    LET hits == {i \in 1..Len(entries) :
                    entries[i].nm # <<>> /\ lower(entries[i].nm) = lower(lead)}
    IN IF hits = {} THEN <<[nm |-> lead, cat |-> <<>>, age |-> 0]>> \o entries
       ELSE MoveToFront(entries, FirstOf(hits))

GuestLine(e, n) ==
    S_Guest_n \o NatStr(n) \o <<":", " ">>
    \o (IF e.nm # <<>> THEN e.nm ELSE IF e.cat # <<>> THEN e.cat ELSE S_Guest)
    \o (IF e.age # 0 THEN S_age \o IntStr(e.age) \o <<")">> ELSE <<>>)

\* the lines built from raw, or none when only the lead guest has any info
GuestLines(entries, lead) ==
    IF \E i \in 1..Len(entries) :
           /\ (entries[i].nm # <<>> \/ entries[i].cat # <<>> \/ entries[i].age # 0)
           /\ lower(entries[i].nm) # lower(lead)
    THEN PyList([i \in 1..Len(entries) |-> GuestLine(entries[i], i)])
    ELSE PyList(<<>>)

PartyLines(parsed, lead) ==
    IF parsed = Raise THEN Raise
    ELSE IF parsed.v = <<>>
    THEN GuestLines(LeadFirst(<<[nm |-> lead, cat |-> <<>>, age |-> 0]>>, lead), lead)
    ELSE GuestLines(LeadFirst(parsed.v, lead), lead)

_parse_party_list(party, lead_full_name) ==
    PartyLines(PartyEntries(party), lead_full_name)

---------------------------------------------------------------------------
(* map_booking_to_event_data *)

\* a lenient state filter: everything but three rejected states proceeds
StateNotRejected(state) ==
    state \notin { <<"c", "a", "n", "c", "e", "l", "l", "e", "d">>,
                   <<"v", "o", "i", "d">>,
                   <<"r", "e", "j", "e", "c", "t", "e", "d">> }

\* the state filter: only "confirmed" proceeds
StateAccepted(state) == state = S_confirmed

GuestName(first, last) ==
    IF strip(first \o <<" ">> \o last) = <<>> THEN S_Guest
    ELSE strip(first \o <<" ">> \o last)

NoneIfFalsy(x) == IF Truthy(x) THEN x ELSE None

\* the dict returned at the end of map_booking_to_event_data, or Raise when
\* a step before it raised
MapFields(b, arrival, departure, first, last, email, phone, extras, currency) ==
    IF \/ first = Raise \/ last = Raise \/ email = Raise
       \/ phone = Raise \/ extras = Raise \/ currency = Raise
    THEN Raise
    ELSE PyDict([id         |-> Get(b, "id"),
                 guest      |-> GuestName(first.v, last.v),
                 arrival    |-> arrival.v,
                 departure  |-> departure.v,
                 email      |-> NoneIfFalsy(email),
                 phone      |-> phone,
                 party      |-> _party_size(b),
                 party_raw  |-> IF Get(b, "party").t = "list"
                                THEN Get(b, "party").v ELSE <<>>,
                 extras     |-> extras.v,
                 value      |-> Get(b, "value"),
                 balance    |-> Get(b, "balance"),
                 paid       |-> _amount_paid(Get(b, "value"), Get(b, "balance")),
                 currency   |-> NoneIfFalsy(currency),
                 entry_id   |-> Get(b, "entry_id"),
                 entry_name |-> Get(b, "entry_name"),
                 channel    |-> Get(b, "syndicate_name")])

\* a date check that lets a record with one date through
BothDatesMissing(arrival, departure) == ~Truthy(arrival) /\ ~Truthy(departure)

\* not arrival or not departure
DatesMissing(arrival, departure) == ~Truthy(arrival) \/ ~Truthy(departure)

\* map_booking_to_event_data after the state filter
MapDated(b, arrival, departure) ==
    IF DatesMissing(arrival, departure) THEN None
    ELSE MapFields(b, arrival, departure,
                   Stripped(StrOrEmpty(b, "customer_forename")),
                   Stripped(StrOrEmpty(b, "customer_surname")),
                   Stripped(StrOrEmpty(b, "customer_email")),
                   _best_phone(b),
                   _filter_extras(Get(b, "lines")),
                   Uppered(StrOrEmpty(b, "currency")))

MapState(b, state, now) ==
    IF state = Raise THEN Raise
    ELSE IF ~StateAccepted(state.v) THEN None
    ELSE MapDated(b, _to_date(Get(b, "start_inclusive"), now),
                     _to_date(Get(b, "end_exclusive"), now))

map_booking_to_event_data(b, now) ==
    MapState(b, Lowered(StrOrEmpty(b, "state")), now)

---------------------------------------------------------------------------
(* iCal rendering *)

_prop_code(entry_id, entry_name) ==
    LET key == Format(Or(entry_id, PyStr(<<>>)))
    IN IF key = S_158596 THEN PyStr(S_RR)
       ELSE IF key = S_158595 THEN PyStr(S_BO)
       ELSE IF key = S_158497 THEN PyStr(S_BB)
       ELSE LET name == Lowered(Or(entry_name, PyStr(<<>>)))
            IN IF name = Raise THEN Raise
               ELSE IF Contains(S_redroofs_by_the_woods, name.v)
                       \/ Contains(S_redroofs, name.v) THEN PyStr(S_RR)
               ELSE IF Contains(S_barn_owl, name.v) THEN PyStr(S_BO)
               ELSE IF Contains(S_bumblebee, name.v) THEN PyStr(S_BB)
               ELSE PyStr(S_RR)

\* the nights of the stay only, without the day of departure
StayNights(arrival, departure) ==
    [i \in 1..(IF arrival < departure THEN departure - arrival ELSE 1) |-> arrival + i - 1]

RECURSIVE _expand_stay_days(_, _)
_expand_stay_days(arrival, departure) ==
    IF arrival < departure
    THEN <<arrival>> \o _expand_stay_days(arrival + 1, departure)
    ELSE <<departure>>

_title_for_day(kind, guest, party, code) ==
    IF kind = K_IN
    THEN S_IN_prefix \o guest
         \o (IF party # None THEN <<" ", "x">> \o Format(party) ELSE <<>>)
         \o <<" ", "(">> \o code \o <<")">>
    ELSE IF kind = K_OUT
    THEN S_OUT_prefix \o guest \o <<" ", "(">> \o code \o <<")">>
    ELSE guest \o <<" ", "(">> \o code \o <<")">>

_booking_url(booking_id) ==
    IF ~Truthy(booking_id) THEN None
    ELSE PyStr(S_url_head \o Format(booking_id) \o S_url_tail)

\* f"{paid:.2f}" of a non-negative number of ticks
Format2f(ticks) ==
    LET cents == (ticks + TicksPerCent \div 2) \div TicksPerCent
    IN NatStr(cents \div 100) \o <<".">> \o Pad(NatStr(cents % 100), 2)

\* the contact lines with the phone first
ContactLinesMobileFirst(m) ==
    (IF Truthy(m.phone) THEN <<S_Mobile \o m.phone.v>> ELSE <<>>)
    \o (IF Truthy(m.email) THEN <<S_Email \o m.email.v>> ELSE <<>>)

\* the lines of desc for the email and the phone
ContactLines(m) ==
    (IF Truthy(m.email) THEN <<S_Email \o m.email.v>> ELSE <<>>)
    \o (IF Truthy(m.phone) THEN <<S_Mobile \o m.phone.v>> ELSE <<>>)

\* the desc list render_calendar builds for one event of a mapped booking
DescLines(m, party_section) ==
    ContactLines(m)
    \o (IF m.party # None THEN <<S_Guests_in_party \o Format(m.party)>> ELSE <<>>)
    \o (IF m.extras # <<>> THEN <<S_Extras \o Join(<<",", " ">>, m.extras)>> ELSE <<>>)
    \o (IF party_section # <<>> THEN <<S_Party_details>> \o party_section ELSE <<>>)
    \o (IF Truthy(m.entry_name) THEN <<S_Property \o Format(m.entry_name)>> ELSE <<>>)
    \o (IF Truthy(m.channel) THEN <<S_Channel \o Format(m.channel)>> ELSE <<>>)
    \o (IF m.paid # None
        THEN <<S_Amount_paid
               \o (IF Truthy(m.currency) THEN m.currency.v \o <<" ">> ELSE <<>>)
               \o Format2f(m.paid.v)>>
        ELSE <<>>)
    \o (IF _booking_url(m.id) # None THEN <<S_Booking \o _booking_url(m.id).v>> ELSE <<>>)

\* the Event _add_event adds.  src (the index of the booking in the list) and
\* kind are bookkeeping of the model, not properties of the iCal event.
_add_event(when, title, desc_lines, uid, src, kind) ==
    [summary     |-> title,
     dtstart     |-> when,
     dtend       |-> when + 1,
     uid         |-> uid,
     description |-> IF desc_lines # <<>> THEN Join(<<"\n">>, desc_lines)
                     ELSE S_Guest_booking,
     src         |-> src,
     kind        |-> kind]

KindOf(i, n) == IF i = 1 THEN K_IN ELSE IF i = n THEN K_OUT ELSE K_MID

\* the event added for one day of the stay
DayEvent(m, code, party_section, day, kind, src) ==
    _add_event(day,
               _title_for_day(kind, m.guest, m.party, code),
               DescLines(m, party_section),
               S_uid_head \o Format(m.id) \o <<"-">> \o kind \o <<"-">> \o isoformat(day),
               src, kind)

\* the events of the day loop, from day i on
RECURSIVE DayEvents(_, _, _, _, _, _, _)
DayEvents(m, code, party_section, days, i, mid, src) ==
    IF i > Len(days) THEN <<>>
    ELSE IF ~mid /\ KindOf(i, Len(days)) = K_MID
    THEN DayEvents(m, code, party_section, days, i + 1, mid, src)
    ELSE <<DayEvent(m, code, party_section, days[i], KindOf(i, Len(days)), src)>>
         \o DayEvents(m, code, party_section, days, i + 1, mid, src)

\* the day loop of render_calendar for a mapped booking m
RenderAccepted(m, code, party_section, src, mid) ==
    IF code = Raise \/ party_section = Raise THEN Raise
    ELSE PyList(DayEvents(m, code.v, party_section.v,
                          _expand_stay_days(m.arrival, m.departure), 1, mid, src))

RenderMapped(mp, src, mid) ==
    IF mp = Raise THEN Raise
    ELSE IF mp = None THEN PyList(<<>>)
    ELSE RenderAccepted(mp.v, _prop_code(mp.v.entry_id, mp.v.entry_name),
                        _parse_party_list(mp.v.party_raw, mp.v.guest), src, mid)

\* one pass of render_calendar's loop over the bookings: the events it adds
\* for booking b (none when b is filtered out), or Raise
RenderBooking(b, src, mid, now) ==
    RenderMapped(map_booking_to_event_data(b, now), src, mid)

---------------------------------------------------------------------------
(* Raw records.  A record is a function from the keys present to values; *)
(* Rec drops the keys whose value is given as None.                       *)

Rec(f) == [k \in {k \in DOMAIN f : f[k] # None} |-> f[k]]

Unset == [t |-> "unset", v |-> 0]              \* no result yet

S_0_15        == <<"0", ".", "1", "5">>
S_0_05_padded == <<" ", "0", ".", "0", "5", " ">>
S_abc         == <<"a", "b", "c">>
S_Confirmed   == <<"C", "o", "n", "f", "i", "r", "m", "e", "d">>
S_CANCELLED   == <<"C", "A", "N", "C", "E", "L", "L", "E", "D">>
S_cancelled   == <<"c", "a", "n", "c", "e", "l", "l", "e", "d">>
S_Void        == <<"V", "o", "i", "d">>
S_void        == <<"v", "o", "i", "d">>
S_rejected    == <<"r", "e", "j", "e", "c", "t", "e", "d">>
S_TENTATIVE   == <<"T", "E", "N", "T", "A", "T", "I", "V", "E">>
S_tentative   == <<"t", "e", "n", "t", "a", "t", "i", "v", "e">>
S_quote       == <<"q", "u", "o", "t", "e">>
S_Quote       == <<"Q", "u", "o", "t", "e">>
S_2024_06_02  == <<"2", "0", "2", "4", "-", "0", "6", "-", "0", "2">>
S_2024_06     == <<"2", "0", "2", "4", "-", "0", "6">>
S_2024_06_04  == <<" ", "2", "0", "2", "4", "-", "0", "6", "-", "0", "4">>
S_phone       == <<"0", "7", "7", "0", "0", " ", "9", "0", "0", "1", "2", "3">>

Today0   == DaysFromCivil(2024, 6, 3)        \* the wall clock at the start
Day0601  == DaysFromCivil(2024, 6, 1)
Ts0601   == Day0601 * SecondsPerDay         \* 2024-06-01T00:00:00Z, epoch seconds
Ts0604   == (Day0601 + 3) * SecondsPerDay   \* 2024-06-04T00:00:00Z, epoch seconds

\* the arguments _amount_paid is applied to: absent, numbers (among them
\* differences below 1e-9), numeric strings, and values float() rejects
AmountValues ==
    { None, PyInt(0), PyInt(1),
      PyFloat(0), PyFloat(1), PyFloat(EpsTicks), PyFloat(EpsTicks + 1),
      PyFloat(5 * TicksPerCent), PyFloat(15 * TicksPerCent), PyFloat(-5 * TicksPerCent),
      PyStr(S_0_15), PyStr(S_0_05_padded), PyStr(S_abc), PyStr(<<>>), PyList(<<>>) }

\* the values of a state field: absent, empty, "confirmed" and the rejected
\* states in several spellings of case
StateValues ==
    { None, PyStr(<<>>), PyStr(S_confirmed), PyStr(S_Confirmed),
      PyStr(S_cancelled), PyStr(S_CANCELLED), PyStr(S_Void), PyStr(S_rejected),
      PyStr(S_TENTATIVE), PyStr(S_Quote) }

\* the values of a date field: absent, epoch seconds, a date, a datetime,
\* full and partial date texts, texts that are no date, an int out of range
DateValues ==
    { None, PyInt(Ts0601), PyInt(Ts0604), PyDate(Day0601 + 1), PyDateTime(Day0601 + 3),
      PyStr(S_2024_06_02), PyStr(S_2024_06_04), PyStr(S_2024_06),
      PyStr(S_abc), PyStr(<<>>), PyBigInt }

\* a phone field: absent, a text, a JSON number
PhoneValues == { None, PyStr(S_phone), PyInt(5550100) }

MapRecords ==
    { Rec([state |-> st, start_inclusive |-> a, end_exclusive |-> d,
           customer_tel_mobile |-> ph, id |-> PyInt(42)]) :
        st \in StateValues, a \in DateValues, d \in DateValues, ph \in PhoneValues }


S_email == <<"a", "n", "n", "@", "e", "x", "a", "m", "p", "l", "e", ".", "c", "o", "m">>
S_blank == <<" ", " ">>
S_Ann == <<"A", "n", "n">>
S_Lee == <<"L", "e", "e">>
S_Bob == <<"B", "o", "b">>
S_Barn_Owl_Cabin == <<"B", "a", "r", "n", " ", "O", "w", "l", " ", "C", "a", "b", "i", "n">>
S_Sea_View == <<"S", "e", "a", " ", "V", "i", "e", "w">>
S_Airbnb == <<"A", "i", "r", "b", "n", "b">>
S_gbp == <<"g", "b", "p">>
S_Infant_Cot == <<"I", "n", "f", "a", "n", "t", " ", "C", "o", "t">>
S_Parking == <<"P", "a", "r", "k", "i", "n", "g">>
S_child == <<"c", "h", "i", "l", "d">>

\* {**a, **b}: the keys of b override those of a
Merge(a, b) == [k \in DOMAIN a \cup DOMAIN b |-> IF k \in DOMAIN b THEN b[k] ELSE a[k]]

\* the date fields of a booking: three nights as epoch seconds; one night as
\* a date and a text; an arrival text without a day; a departure before the
\* arrival; no departure
ThreeNights == [start_inclusive |-> PyInt(Ts0601), end_exclusive |-> PyInt(Ts0604)]

DatePairs ==
    { ThreeNights,
      [start_inclusive |-> PyDate(Day0601), end_exclusive |-> PyStr(S_2024_06_02)],
      [start_inclusive |-> PyStr(S_2024_06), end_exclusive |-> PyInt(Ts0604)],
      [start_inclusive |-> PyInt(Ts0604), end_exclusive |-> PyStr(S_2024_06_02)],
      [start_inclusive |-> PyInt(Ts0601)] }

\* a booking with every field
FullProfile ==
    [state |-> PyStr(S_Confirmed), id |-> PyInt(42),
     customer_forename |-> PyStr(S_Ann), customer_surname |-> PyStr(S_Lee),
     customer_email |-> PyStr(S_email), customer_tel_mobile |-> PyStr(S_phone),
     party_size |-> PyStr(<<"2">>),
     party |-> PyList(<<PyDict([forename |-> PyStr(S_Ann), surname |-> PyStr(S_Lee)]),
                        PyDict([forename |-> PyStr(S_child), age |-> PyInt(5)])>>),
     lines |-> PyList(<<PyDict([type |-> PyStr(S_extra), name |-> PyStr(S_Infant_Cot),
                                quantity |-> PyInt(1)]),
                        PyDict([type |-> PyStr(S_extra), name |-> PyStr(S_Parking)])>>),
     value |-> PyStr(S_0_15), balance |-> PyFloat(5 * TicksPerCent),
     currency |-> PyStr(S_gbp),
     entry_id |-> PyInt(158595), entry_name |-> PyStr(S_Barn_Owl_Cabin),
     syndicate_name |-> PyStr(S_Airbnb)]

\* the other fields of a booking
GuestProfiles ==
    { \* nothing but the state
      [state |-> PyStr(S_confirmed)],
      FullProfile,
      \* email, phone and amount paid
      [state |-> PyStr(S_confirmed), id |-> PyStr(<<"B", "7">>),
       customer_email |-> PyStr(S_email), customer_tel_day |-> PyStr(S_phone),
       value |-> PyFloat(15 * TicksPerCent), balance |-> PyInt(0)],
      \* a blank email, a party of one, a falsy id, an unknown property
      [state |-> PyStr(S_confirmed), id |-> PyInt(0),
       customer_forename |-> PyStr(S_Ann), customer_email |-> PyStr(S_blank),
       party_size |-> PyInt(1),
       party |-> PyList(<<PyDict([forename |-> PyStr(S_Ann)])>>),
       entry_name |-> PyStr(S_Sea_View)],
      \* a phone that is a JSON number
      [state |-> PyStr(S_confirmed), id |-> PyInt(43),
       customer_tel_mobile |-> PyInt(5550100)],
      \* nothing but a party list that names a second guest
      [state |-> PyStr(S_confirmed),
       party |-> PyList(<<PyDict([forename |-> PyStr(S_Bob)])>>)] }

\* every profile with a stay of three nights, the full profile with every
\* pair of dates, and a cancelled booking
RenderRecords ==
    { Merge(g, ThreeNights) : g \in GuestProfiles }
    \cup { Merge(FullProfile, d) : d \in DatePairs }
    \cup { [state |-> PyStr(S_CANCELLED), id |-> PyInt(44),
            start_inclusive |-> PyInt(Ts0601), end_exclusive |-> PyInt(Ts0604)] }

MaxBookings == 2                \* the longest list rendered
MaxCalls    == 2                \* render_calendar calls on one list
MaxTicks    == 1                \* days that may pass between two calls

RECURSIVE ListsUpTo(_, _)
ListsUpTo(S, n) ==
    IF n = 0 THEN {<<>>}
    ELSE ListsUpTo(S, n - 1) \cup {Append(l, x) : l \in ListsUpTo(S, n - 1), x \in S}

---------------------------------------------------------------------------
(* _amount_paid applied to a pair of arguments *)

\* generate_and_write not running: an empty output directory
GenIdle ==
    /\ property_ids = <<>> /\ pid_i = 1 /\ base = <<>> /\ item_i = 1
    /\ enriched = <<>> /\ files = <<>> /\ index_html = "none"
    /\ written = <<>> /\ exc = "none"

InitAmount ==
    /\ pc = "amount"
    /\ today = Today0
    /\ value \in AmountValues /\ balance \in AmountValues /\ paid = Unset
    /\ raw = <<>> /\ mapped = Unset
    /\ bookings = <<>> /\ include_mid = TRUE /\ idx = 1 /\ cal = <<>> /\ runs = <<>>
    /\ GenIdle

AmountPaid ==
    /\ pc = "amount"
    /\ paid' = _amount_paid(value, balance)
    /\ pc' = "amount_done"
    /\ UNCHANGED <<today, value, balance, mapVars, renderVars, genVars>>

NextAmount == AmountPaid

SpecAmount == InitAmount /\ [][NextAmount]_vars

---------------------------------------------------------------------------
(* render_calendar: one action per pass of its loop over the bookings *)

\* what a finished call hands back: the UIDs of its events, or an exception
RunResult(raised, events) ==
    [raised |-> raised, uids |-> [i \in 1..Len(events) |-> events[i].uid]]

RenderPass ==
    /\ pc = "render"
    /\ idx <= Len(bookings)
    /\ LET r == RenderBooking(bookings[idx], idx, include_mid, today)
       IN IF r = Raise
          THEN /\ pc' = "raised"
               /\ runs' = Append(runs, RunResult(TRUE, <<>>))
               /\ UNCHANGED <<idx, cal>>
          ELSE /\ cal' = cal \o r.v
               /\ idx' = idx + 1
               /\ UNCHANGED <<pc, runs>>
    /\ UNCHANGED <<today, amountVars, mapVars, bookings, include_mid, genVars>>

RenderReturn ==
    /\ pc = "render"
    /\ idx > Len(bookings)
    /\ pc' = "returned"
    /\ runs' = Append(runs, RunResult(FALSE, cal))
    /\ UNCHANGED <<today, amountVars, mapVars, bookings, include_mid, idx, cal, genVars>>

---------------------------------------------------------------------------
(* map_booking_to_event_data applied to one raw record, which is then     *)
(* rendered as a list of one                                              *)

InitMap ==
    /\ pc = "map"
    /\ today = Today0
    /\ value = None /\ balance = None /\ paid = Unset
    /\ raw \in MapRecords /\ mapped = Unset
    /\ bookings = <<raw>> /\ include_mid \in BOOLEAN
    /\ idx = 1 /\ cal = <<>> /\ runs = <<>>
    /\ GenIdle

MapBooking ==
    /\ pc = "map"
    /\ mapped' = map_booking_to_event_data(raw, today)
    /\ pc' = "render"
    /\ UNCHANGED <<today, amountVars, raw, renderVars, genVars>>

NextMap == MapBooking \/ RenderPass \/ RenderReturn

SpecMap == InitMap /\ [][NextMap]_vars

---------------------------------------------------------------------------
(* render_calendar called on a list of raw records; and called again on   *)
(* the unchanged list, possibly on a later day                            *)

InitRender ==
    /\ pc = "render"
    /\ today = Today0
    /\ value = None /\ balance = None /\ paid = Unset
    /\ raw = <<>> /\ mapped = Unset
    /\ bookings \in ListsUpTo(RenderRecords, MaxBookings)
    /\ include_mid \in BOOLEAN
    /\ idx = 1 /\ cal = <<>> /\ runs = <<>>
    /\ GenIdle

RenderAgain ==
    /\ pc \in {"returned", "raised"}
    /\ Len(runs) < MaxCalls
    /\ \E dt \in 0..MaxTicks : today' = today + dt
    /\ pc' = "render"
    /\ idx' = 1
    /\ cal' = <<>>
    /\ UNCHANGED <<amountVars, mapVars, bookings, include_mid, runs, genVars>>

\* one call
NextRender == RenderPass \/ RenderReturn

SpecRender == InitRender /\ [][NextRender]_vars

\* repeated calls on the same list
NextRepeat == RenderPass \/ RenderReturn \/ RenderAgain

SpecRepeat == InitRender /\ [][NextRepeat]_vars

---------------------------------------------------------------------------
(* generate_and_write: the fetches, the feeds of each property, the index, *)
(* and the handler of the try block                                        *)

S_999 == <<"9", "9", "9">>
F_BO_full == <<"B", "O", "-", "A", "P", "I", ".", "i", "c", "s">>
F_BO_inout ==
    <<"B", "O", "-", "A", "P", "I", "-", "I", "N", "O", "U", "T", ".", "i", "c", "s">>
F_RR_full == <<"R", "R", "-", "A", "P", "I", ".", "i", "c", "s">>
F_RR_inout ==
    <<"R", "R", "-", "A", "P", "I", "-", "I", "N", "O", "U", "T", ".", "i", "c", "s">>
F_BB_full == <<"B", "B", "-", "A", "P", "I", ".", "i", "c", "s">>
F_BB_inout ==
    <<"B", "B", "-", "A", "P", "I", "-", "I", "N", "O", "U", "T", ".", "i", "c", "s">>
S_ics == <<".", "i", "c", "s">>
S_INOUT_ics == <<"-", "I", "N", "O", "U", "T", ".", "i", "c", "s">>
\* " – Guests"; the element "EN DASH" stands for the character U+2013
S_Guests_suffix == <<" ", "EN DASH", " ", "G", "u", "e", "s", "t", "s">>

\* PID_TO_FILENAMES.get(pid, (f"{pid}.ics", f"{pid}-INOUT.ics"))
PID_TO_FILENAMES(pid) ==
    CASE pid = S_158595 -> <<F_BO_full, F_BO_inout>>
      [] pid = S_158596 -> <<F_RR_full, F_RR_inout>>
      [] pid = S_158497 -> <<F_BB_full, F_BB_inout>>
      [] OTHER -> <<pid \o S_ics, pid \o S_INOUT_ics>>

\* A calendar document: its fixed content lines, the value of X-WR-CALNAME
\* (<<>> when it has none), and its VEVENT blocks.
Document(lines, calname, vevents) ==
    [lines |-> lines, calname |-> calname, vevents |-> vevents]

\* the text the handler writes
placeholder ==
    Document(<<"BEGIN:VCALENDAR", "VERSION:2.0",
               "PRODID:-//Redroofs Bookster iCal//EN", "END:VCALENDAR">>,
             <<>>, <<>>)

\* the items of a list response
ListItems(payload) ==
    IF payload.t = "dict" /\ Get(payload.v, "data").t = "list"
    THEN Get(payload.v, "data").v
    ELSE IF payload.t = "list" THEN payload.v
    ELSE <<>>

ConsItem(keep, item, rest) ==
    IF keep = Raise \/ rest = Raise THEN Raise
    ELSE IF keep.v = S_confirmed THEN PyList(<<item>> \o rest.v)
    ELSE rest

\* [b for b in items if (b.get("state") or "").lower() == "confirmed"]
RECURSIVE ConfirmedOnly(_)
ConfirmedOnly(items) ==
    IF items = <<>> THEN PyList(<<>>)
    ELSE IF Head(items).t # "dict" THEN Raise
    ELSE ConsItem(Lowered(StrOrEmpty(Head(items).v, "state")), Head(items).v,
                  ConfirmedOnly(Tail(items)))

\* fetch_list_for_property, given what _bookster_get hands back (Raise: the
\* request failed)
fetch_list_for_property(payload) ==
    IF payload = Raise THEN Raise ELSE ConfirmedOnly(ListItems(payload))

\* fetch_detail, given what _bookster_get hands back
fetch_detail(payload) ==
    IF payload = Raise THEN Raise
    ELSE IF payload.t = "dict" THEN payload
    ELSE PyDict(<<>>)

\* date.min
DateMin == DaysFromCivil(1, 1, 1)

\* the sort key: _to_date(x.get("start_inclusive")) or date.min
SortKey(b, now) ==
    IF Truthy(_to_date(Get(b, "start_inclusive"), now))
    THEN _to_date(Get(b, "start_inclusive"), now).v
    ELSE DateMin

\* b inserted behind every record whose key is not greater (a stable sort)
RECURSIVE InsertByKey(_, _, _)
InsertByKey(sorted, b, now) ==
    IF sorted = <<>> THEN <<b>>
    ELSE IF SortKey(Head(sorted), now) <= SortKey(b, now)
    THEN <<Head(sorted)>> \o InsertByKey(Tail(sorted), b, now)
    ELSE <<b>> \o sorted

\* enriched.sort(key=...)
RECURSIVE SortByArrival(_, _)
SortByArrival(bs, now) ==
    IF bs = <<>> THEN <<>>
    ELSE InsertByKey(SortByArrival(SubSeq(bs, 1, Len(bs) - 1), now), bs[Len(bs)], now)

\* the calendar name: the first truthy entry_name, else the property id
RECURSIVE CalName(_, _)
CalName(bs, pid) ==
    IF bs = <<>> THEN PyStr(pid)
    ELSE IF Truthy(Get(Head(bs), "entry_name")) THEN Get(Head(bs), "entry_name")
    ELSE CalName(Tail(bs), pid)

ConsEvents(r, rest) ==
    IF r = Raise \/ rest = Raise THEN Raise ELSE PyList(r.v \o rest.v)

\* the loop of render_calendar over the bookings, from booking i on
RECURSIVE RenderList(_, _, _, _)
RenderList(bs, i, mid, now) ==
    IF i > Len(bs) THEN PyList(<<>>)
    ELSE ConsEvents(RenderBooking(bs[i], i, mid, now), RenderList(bs, i + 1, mid, now))

\* Calendar.to_ical() of the properties and the events added
ToICal(calendar_name, events) ==
    IF events = Raise THEN Raise
    ELSE Document(<<"BEGIN:VCALENDAR", "VERSION:2.0",
                    "PRODID:-//Redroofs Bookster iCal//EN", "END:VCALENDAR">>,
                  IF Truthy(calendar_name)
                  THEN Format(calendar_name) \o S_Guests_suffix ELSE <<>>,
                  events.v)

render_calendar(bs, calendar_name, mid, now) ==
    ToICal(calendar_name, RenderList(bs, 1, mid, now))

\* open(path, "w").write(content)
WriteFile(fs, name, content) ==
    [n \in DOMAIN fs \cup {name} |-> IF n = name THEN content ELSE fs[n]]

\* the handler writing only the full feed of each property
RECURSIVE WritePlaceholdersFullOnly(_, _)
WritePlaceholdersFullOnly(fs, pids) ==
    IF pids = <<>> THEN fs
    ELSE WritePlaceholdersFullOnly(
             WriteFile(fs, PID_TO_FILENAMES(Head(pids))[1], placeholder), Tail(pids))

\* the handler's loop: the placeholder written to both feeds of every property
RECURSIVE WritePlaceholders(_, _)
WritePlaceholders(fs, pids) ==
    IF pids = <<>> THEN fs
    ELSE WritePlaceholders(
             WriteFile(WriteFile(fs, PID_TO_FILENAMES(Head(pids))[1], placeholder),
                       PID_TO_FILENAMES(Head(pids))[2], placeholder),
             Tail(pids))

\* what the upstream answers to a list request: a failure, an object with the
\* data, a bare list, an object without data
S_data_entry == <<"B", "a", "r", "n", " ", "O", "w", "l">>

ItemA ==
    PyDict([id |-> PyInt(42), state |-> PyStr(S_Confirmed),
            start_inclusive |-> PyInt(Ts0604), end_exclusive |-> PyInt(Ts0604 + SecondsPerDay)])
ItemB ==
    PyDict([id |-> PyInt(43), state |-> PyStr(S_confirmed),
            start_inclusive |-> PyInt(Ts0601), end_exclusive |-> PyInt(Ts0604)])
ItemNoId ==
    PyDict([state |-> PyStr(S_confirmed),
            start_inclusive |-> PyInt(Ts0601), end_exclusive |-> PyInt(Ts0604)])
ItemCancelled ==
    PyDict([id |-> PyInt(44), state |-> PyStr(S_cancelled),
            start_inclusive |-> PyInt(Ts0601), end_exclusive |-> PyInt(Ts0604)])

ListPayloads ==
    { Raise,
      PyDict([data |-> PyList(<<ItemA, ItemB>>)]),
      PyList(<<ItemB, ItemNoId, ItemCancelled>>),
      PyDict([message |-> PyStr(S_abc)]) }

\* what the upstream answers to a detail request: a failure, the details, a
\* response that is no object
DetailPayloads ==
    { Raise,
      PyDict([entry_name |-> PyStr(S_data_entry), customer_forename |-> PyStr(S_Ann),
              party_size |-> PyInt(2)]),
      PyDict([customer_tel_mobile |-> PyInt(5550100)]),
      PyList(<<>>) }

MaxProperties == 2              \* the longest list of property ids

\* files left in the output directory by an earlier run
StaleFiles ==
    WriteFile(<<>>, F_BO_full,
              Document(placeholder.lines, S_data_entry \o S_Guests_suffix,
                       RenderBooking(ItemB.v, 1, TRUE, Today0).v))

InitGen ==
    /\ pc = "gen_list"
    /\ today = Today0
    /\ value = None /\ balance = None /\ paid = Unset
    /\ raw = <<>> /\ mapped = Unset
    /\ bookings = <<>> /\ include_mid = TRUE /\ idx = 1 /\ cal = <<>> /\ runs = <<>>
    /\ property_ids \in ListsUpTo({S_158595, S_999}, MaxProperties)
    /\ pid_i = 1 /\ base = <<>> /\ item_i = 1 /\ enriched = <<>>
    /\ files \in {<<>>, StaleFiles}
    /\ index_html = "none" /\ written = <<>> /\ exc = "none"

\* base = await fetch_list_for_property(pid)
GenFetchList ==
    /\ pc = "gen_list"
    /\ pid_i <= Len(property_ids)
    /\ \E payload \in ListPayloads :
         LET r == fetch_list_for_property(payload)
         IN IF r = Raise
            THEN /\ pc' = "gen_except"
                 /\ exc' = "fetch"
                 /\ UNCHANGED <<base, item_i, enriched>>
            ELSE /\ base' = r.v
                 /\ item_i' = 1
                 /\ enriched' = <<>>
                 /\ pc' = "gen_detail"
                 /\ exc' = exc
    /\ UNCHANGED <<today, amountVars, mapVars, renderVars,
                   property_ids, pid_i, files, index_html, written>>

\* one pass of the loop over base: detail = await fetch_detail(bid)
GenFetchDetail ==
    /\ pc = "gen_detail"
    /\ item_i <= Len(base)
    /\ IF ~Truthy(Get(base[item_i], "id"))
       THEN /\ item_i' = item_i + 1
            /\ UNCHANGED <<pc, enriched, exc>>
       ELSE \E payload \in DetailPayloads :
              LET detail == fetch_detail(payload)
              IN IF detail = Raise
                 THEN /\ pc' = "gen_except"
                      /\ exc' = "fetch"
                      /\ UNCHANGED <<item_i, enriched>>
                 ELSE /\ enriched' = Append(enriched, Merge(base[item_i], detail.v))
                      /\ item_i' = item_i + 1
                      /\ UNCHANGED <<pc, exc>>
    /\ UNCHANGED <<today, amountVars, mapVars, renderVars,
                   property_ids, pid_i, base, files, index_html, written>>

\* the files and the list written once ics_full and ics_inout are rendered
FeedsWritten(fs, names, ics_full, ics_inout) ==
    IF ics_full = Raise THEN fs
    ELSE IF ics_inout = Raise THEN WriteFile(fs, names[1], ics_full)
    ELSE WriteFile(WriteFile(fs, names[1], ics_full), names[2], ics_inout)

WrittenAfter(w, names, ics_full, ics_inout) ==
    IF ics_full = Raise THEN w
    ELSE IF ics_inout = Raise THEN Append(w, names[1])
    ELSE w \o names

\* the rest of the property's pass: both feeds written, or the exception of
\* render_calendar raised
GenWriteFeedsOf(names, ics_full, ics_inout) ==
    /\ files' = FeedsWritten(files, names, ics_full, ics_inout)
    /\ written' = WrittenAfter(written, names, ics_full, ics_inout)
    /\ IF ics_full = Raise \/ ics_inout = Raise
       THEN pc' = "gen_except" /\ exc' = "render" /\ pid_i' = pid_i
       ELSE pc' = "gen_list" /\ exc' = exc /\ pid_i' = pid_i + 1

\* the two render_calendar calls on the sorted list
GenRenderFeeds(sorted, cal_name, names) ==
    GenWriteFeedsOf(names, render_calendar(sorted, cal_name, TRUE, today),
                           render_calendar(sorted, cal_name, FALSE, today))

GenSorted(sorted) ==
    GenRenderFeeds(sorted, CalName(sorted, property_ids[pid_i]),
                   PID_TO_FILENAMES(property_ids[pid_i]))

GenWriteFeeds ==
    /\ pc = "gen_detail"
    /\ item_i > Len(base)
    /\ GenSorted(SortByArrival(enriched, today))
    /\ UNCHANGED <<today, amountVars, mapVars, renderVars,
                   property_ids, base, item_i, enriched, index_html>>

\* the index written after the loop, and the return
GenWriteIndex ==
    /\ pc = "gen_list"
    /\ pid_i > Len(property_ids)
    /\ index_html' = "links"
    /\ pc' = "gen_done"
    /\ UNCHANGED <<today, amountVars, mapVars, renderVars,
                   property_ids, pid_i, base, item_i, enriched, files, written, exc>>

\* except Exception as e: placeholder feeds and the error on the index
GenExcept ==
    /\ pc = "gen_except"
    /\ files' = WritePlaceholders(files, property_ids)
    /\ index_html' = "error"
    /\ pc' = "gen_done"
    /\ UNCHANGED <<today, amountVars, mapVars, renderVars,
                   property_ids, pid_i, base, item_i, enriched, written, exc>>

NextGen == GenFetchList \/ GenFetchDetail \/ GenWriteFeeds \/ GenWriteIndex \/ GenExcept

SpecGen == InitGen /\ [][NextGen]_vars

---------------------------------------------------------------------------
(* C5 *)

BothParse == ToFloat(value) # Raise /\ ToFloat(balance) # Raise
Difference == ToFloat(value).v - ToFloat(balance).v

\* C5 (as stated): when value and balance both parse as numbers the amount
\* paid equals max(0, value - balance), never negative; when either is absent
\* or unparseable the amount paid is absent.
C5_AmountPaidIsClampedDifference ==
    pc = "amount_done" =>
        IF BothParse
        THEN paid = PyFloat(Max(0, Difference))
        ELSE paid = None

\* C5 (amended): as above, except that a difference of magnitude below 1e-9
\* is reported as 0.
C5_AmountPaidClampedWithSnap ==
    pc = "amount_done" =>
        IF BothParse
        THEN /\ paid.t = "float"
             /\ paid.v >= 0
             /\ (Abs(Difference) >= EpsTicks => paid.v = Max(0, Difference))
             /\ (Abs(Difference) < EpsTicks => paid.v = 0)
        ELSE paid = None

\* a payment was computed from a numeric text and a number
C5_Witness ==
    /\ pc = "amount_done"
    /\ value = PyStr(S_0_15) /\ balance = PyFloat(5 * TicksPerCent)
    /\ paid = PyFloat(10 * TicksPerCent)

---------------------------------------------------------------------------
(* C3, C4, C8 *)

RejectedStates == {S_cancelled, S_void, S_rejected, S_tentative, S_quote}

StateIsRejected(b) ==
    Get(b, "state").t = "str" /\ lower(Get(b, "state").v) \in RejectedStates

\* C3: a record whose state is, in any case, cancelled, void, rejected,
\* tentative or quote is mapped to None and gets no event, whatever its other
\* fields are.
C3_RejectedStatesFiltered ==
    StateIsRejected(raw) =>
        /\ pc # "map" => mapped = None
        /\ cal = <<>>
        /\ pc # "raised"

\* a rejected state in capitals, with dates that resolve and a phone that is
\* a number, was mapped and rendered
C3_Witness ==
    /\ pc = "returned"
    /\ Get(raw, "state") = PyStr(S_CANCELLED)
    /\ Get(raw, "start_inclusive") = PyInt(Ts0601)
    /\ Get(raw, "end_exclusive") = PyInt(Ts0604)
    /\ Get(raw, "customer_tel_mobile") = PyInt(5550100)
    /\ mapped = None /\ cal = <<>>

DatesResolve(b) ==
    /\ _to_date(Get(b, "start_inclusive"), today) # None
    /\ _to_date(Get(b, "end_exclusive"), today) # None

\* C4: a record whose start_inclusive or end_exclusive is missing or does not
\* resolve to a date is mapped to None and contributes no event; a record is
\* returned only when both dates resolve.
C4_DatesRequired ==
    /\ ~DatesResolve(raw) =>
           /\ pc # "map" => mapped = None
           /\ cal = <<>>
    /\ mapped.t = "dict" => DatesResolve(raw)

\* a confirmed record with an arrival but a departure that is no date
C4_Witness ==
    /\ pc = "returned"
    /\ Get(raw, "state") = PyStr(S_confirmed)
    /\ Get(raw, "start_inclusive") = PyInt(Ts0601)
    /\ Get(raw, "end_exclusive") = PyStr(S_abc)
    /\ mapped = None /\ cal = <<>>

\* C8: in every record map_booking_to_event_data returns, the departure date
\* is strictly later than the arrival date.
C8_DepartureAfterArrival ==
    mapped.t = "dict" => mapped.v.departure > mapped.v.arrival

---------------------------------------------------------------------------
(* C1, C2, C6, C9: render_calendar on a list of raw records *)

\* the events in the Calendar that the pass over booking j added
EventsOf(j) == SelectSeq(cal, LAMBDA e : e.src = j)

\* what map_booking_to_event_data makes of booking j
MappedOf(j) == map_booking_to_event_data(bookings[j], today)

\* C1: render_calendar called twice on the same, unchanged list (same name,
\* same include_mid) yields the same sequence of event UIDs both times.
C1_UidsDeterministic ==
    Len(runs) >= 2 => runs[1] = runs[2]

\* the events of booking j are one per day from the arrival through the
\* departure, in ascending order: IN, then MIDs, then OUT
OnePerDay(evs, arrival, departure) ==
    /\ Len(evs) = departure - arrival + 1
    /\ \A k \in 1..Len(evs) :
         /\ evs[k].dtstart = arrival + k - 1
         /\ evs[k].kind = (IF k = 1 THEN K_IN ELSE IF k = Len(evs) THEN K_OUT ELSE K_MID)
         /\ evs[k].uid = S_uid_head \o Format(Get(bookings[evs[k].src], "id")) \o <<"-">>
                         \o evs[k].kind \o <<"-">> \o isoformat(arrival + k - 1)
    /\ StartsWith(evs[1].summary, S_IN_prefix)
    /\ StartsWith(evs[Len(evs)].summary, S_OUT_prefix)

\* C2: with include_mid=True, every accepted booking with arrival < departure
\* that the loop has passed has exactly one event on each date from arrival
\* through departure inclusive, in ascending order: IN on the arrival date, MID
\* on the dates strictly between, OUT on the departure date.
C2_SplitModeDayEvents ==
    \A j \in 1..Len(bookings) :
        (/\ include_mid
         /\ j < idx
         /\ MappedOf(j).t = "dict"
         /\ MappedOf(j).v.arrival < MappedOf(j).v.departure)
        => OnePerDay(EventsOf(j), MappedOf(j).v.arrival, MappedOf(j).v.departure)

\* a stay of three nights rendered in full: IN, two MIDs and OUT
C2_Witness ==
    /\ pc = "returned"
    /\ include_mid
    /\ Len(bookings) = 2
    /\ Get(bookings[2], "start_inclusive") = PyInt(Ts0601)
    /\ Get(bookings[2], "end_exclusive") = PyInt(Ts0604)
    /\ Len(EventsOf(2)) = 4
    /\ EventsOf(2)[2].kind = K_MID /\ EventsOf(2)[3].dtstart = Day0601 + 2

\* a record that is well formed in every field the code reads as a str
WellFormed(b) ==
    \A k \in DOMAIN b \ {"id", "party_size", "value", "balance", "party", "lines",
                         "start_inclusive", "end_exclusive", "entry_id"} :
        b[k].t = "str"

\* C6: no normalization step raises, whatever the types of a record's values;
\* so when a render_calendar call ends, each well-formed accepted record of
\* the list has its events in the calendar, whatever the other records are.
C6_FailSoftNormalization ==
    /\ pc # "raised"
    /\ pc = "returned" =>
         \A j \in 1..Len(bookings) :
             (WellFormed(bookings[j]) /\ MappedOf(j).t = "dict") => EventsOf(j) # <<>>

\* the text a title has after its prefix, for a guest count of n, or of none
TitleRest(m, n) ==
    m.guest \o (IF n = None THEN <<>> ELSE <<" ", "x">> \o Format(n)) \o <<" ", "(">>

\* C9: the title of every IN event starts with "IN: " and carries " x{N}",
\* N being the party size, or 1 when the party size is unknown; MID and OUT
\* titles carry no guest count.
C9_ArrivalTitleHasGuestCount ==
    \A k \in 1..Len(cal) :
        IF cal[k].kind = K_IN
        THEN StartsWith(cal[k].summary,
                 S_IN_prefix \o TitleRest(MappedOf(cal[k].src).v,
                                          IF MappedOf(cal[k].src).v.party = None
                                          THEN PyInt(1)
                                          ELSE MappedOf(cal[k].src).v.party))
        ELSE IF cal[k].kind = K_OUT
        THEN StartsWith(cal[k].summary,
                 S_OUT_prefix \o TitleRest(MappedOf(cal[k].src).v, None))
        ELSE StartsWith(cal[k].summary, TitleRest(MappedOf(cal[k].src).v, None))

---------------------------------------------------------------------------
(* C10: the description of an event *)

RECURSIVE SplitLines(_)
SplitAt(s, i) ==
    IF i = 0 THEN <<s>>
    ELSE <<SubSeq(s, 1, i - 1)>> \o SplitLines(SubSeq(s, i + 1, Len(s)))

\* description.split("\n")
SplitLines(s) == SplitAt(s, IndexOf("\n", s))

FieldPrefixes ==
    <<S_Email, S_Mobile, S_Guests_in_party, S_Extras,
      S_Property, S_Channel, S_Amount_paid, S_Booking>>

\* the place of a line's field in the fixed order, 0 for a line of no field
FieldRank(line) ==
    IF \E r \in 1..Len(FieldPrefixes) : StartsWith(line, FieldPrefixes[r])
    THEN CHOOSE r \in 1..Len(FieldPrefixes) : StartsWith(line, FieldPrefixes[r])
    ELSE 0

Ranks(lines) == [i \in 1..Len(lines) |-> FieldRank(lines[i])]

\* which of the eight fields a mapped booking has
FieldPresent(m) ==
    <<Truthy(m.email), Truthy(m.phone), m.party # None, m.extras # <<>>,
      Truthy(m.entry_name), Truthy(m.channel), m.paid # None, Truthy(m.id)>>

\* the lines of fields are in the fixed order, one line per field present
FieldsInOrder(ranks, present) ==
    /\ \A i, j \in 1..Len(ranks) :
         (i < j /\ ranks[i] > 0 /\ ranks[j] > 0) => ranks[i] < ranks[j]
    /\ \A r \in 1..Len(present) :
         present[r] <=> \E i \in 1..Len(ranks) : ranks[i] = r

DescriptionAsStated(description, ranks, present) ==
    IF \A r \in 1..Len(present) : ~present[r]
    THEN description = S_Guest_booking
    ELSE /\ \A i \in 1..Len(ranks) : ranks[i] > 0
         /\ FieldsInOrder(ranks, present)

AllAsStated(evs, present) ==
    \A k \in 1..Len(evs) :
        DescriptionAsStated(evs[k].description,
                            Ranks(SplitLines(evs[k].description)), present)

\* C10 (as stated): the description lines of every event are in the order
\* Email, Mobile, party size, extras, property, channel, amount paid, booking
\* link; an absent field has no line; with no field present the description
\* is "Guest booking".
C10_DescriptionFieldOrder ==
    \A j \in 1..Len(bookings) :
        EventsOf(j) # <<>> => AllAsStated(EventsOf(j), FieldPresent(MappedOf(j).v))

\* the lines of no field are one block between extras and property: the
\* header "Party details", then the lines "Guest 1: ...", "Guest 2: ..."
PartyBlock(lines, ranks, others) ==
    \/ others = {}
    \/ \E a, b \in 1..Len(lines) :
         /\ a < b
         /\ others = a..b
         /\ lines[a] = S_Party_details
         /\ \A i \in (a + 1)..b :
              StartsWith(lines[i], S_Guest_n \o NatStr(i - a) \o <<":", " ">>)
         /\ \A i \in 1..(a - 1) : ranks[i] <= 4
         /\ \A i \in (b + 1)..Len(lines) : ranks[i] >= 5

DescriptionWithParty(description, lines, ranks, present, party_section) ==
    IF (\A r \in 1..Len(present) : ~present[r]) /\ party_section = <<>>
    THEN description = S_Guest_booking
    ELSE /\ FieldsInOrder(ranks, present)
         /\ PartyBlock(lines, ranks, {i \in 1..Len(ranks) : ranks[i] = 0})
         /\ party_section = <<>> <=> \A i \in 1..Len(ranks) : ranks[i] > 0

AllWithParty(evs, present, party_section) ==
    \A k \in 1..Len(evs) :
        DescriptionWithParty(evs[k].description, SplitLines(evs[k].description),
                             Ranks(SplitLines(evs[k].description)),
                             present, party_section)

\* the party section render_calendar builds for a mapped booking
PartyOf(m) == _parse_party_list(m.party_raw, m.guest).v

\* C10 (amended): the description lines of every event are in the order
\* Email, Mobile, party size, extras, party details, property, channel, amount
\* paid, booking link, where party details is the header "Party details"
\* followed by one "Guest N: ..." line per guest and is present when the party
\* list tells of anyone but the lead guest; an absent field has no line; with
\* no field and no party details the description is "Guest booking".
C10_DescriptionOrderWithPartyDetails ==
    \A j \in 1..Len(bookings) :
        EventsOf(j) # <<>> =>
            AllWithParty(EventsOf(j), FieldPresent(MappedOf(j).v), PartyOf(MappedOf(j).v))

\* an event whose description has all eight fields and a party of two
C10_Witness ==
    /\ pc = "returned"
    /\ \E k \in 1..Len(cal) :
         /\ Len(SplitLines(cal[k].description)) = 11
         /\ FieldRank(SplitLines(cal[k].description)[1]) = 1
         /\ SplitLines(cal[k].description)[5] = S_Party_details
         /\ FieldRank(SplitLines(cal[k].description)[11]) = 8

---------------------------------------------------------------------------
(* C7: generate_and_write when a fetch fails *)

\* the feed files of the properties asked for
FeedNames ==
    { PID_TO_FILENAMES(property_ids[i])[k] : i \in 1..Len(property_ids), k \in 1..2 }

\* header, footer and no VEVENT block
ValidEmptyCalendar(doc) ==
    /\ Len(doc.lines) >= 4
    /\ doc.lines[1] = "BEGIN:VCALENDAR"
    /\ \E i \in 1..Len(doc.lines) : doc.lines[i] = "VERSION:2.0"
    /\ \E i \in 1..Len(doc.lines) : doc.lines[i] = "PRODID:-//Redroofs Bookster iCal//EN"
    /\ doc.lines[Len(doc.lines)] = "END:VCALENDAR"
    /\ doc.vevents = <<>>

\* C7: if a list or detail fetch raised, then when generate_and_write has
\* returned, the full and the IN/OUT-only file of every property asked for
\* exist and each holds a valid calendar with no VEVENT.
C7_EmptyFeedsOnFetchFailure ==
    (pc = "gen_done" /\ exc = "fetch") =>
        \A n \in FeedNames : n \in DOMAIN files /\ ValidEmptyCalendar(files[n])

\* the detail fetch of the second property failed after the feeds of the
\* first, with events, had been written
C7_Witness ==
    /\ pc = "gen_done" /\ exc = "fetch"
    /\ Len(property_ids) = 2 /\ property_ids[1] # property_ids[2]
    /\ pid_i = 2 /\ Len(written) = 2 /\ item_i = 2 /\ Len(base) = 2
    /\ \A n \in FeedNames : n \in DOMAIN files /\ files[n] = placeholder

---------------------------------------------------------------------------
(* C11: rendering without one event per day *)

\* one event for the whole stay: from the arrival to the departure, exclusive
OneEventForStay(evs, arrival, departure) ==
    /\ Len(evs) = 1
    /\ evs[1].dtstart = arrival
    /\ evs[1].dtend = departure

\* C11: rendered without per-day splitting (include_mid=False is the only
\* mode of render_calendar that is not the full per-day one), every accepted
\* booking has exactly one event, with DTSTART the arrival date and DTEND the
\* departure date (exclusive).
C11_SimpleModeOneEventPerStay ==
    \A j \in 1..Len(bookings) :
        (~include_mid /\ j < idx /\ MappedOf(j).t = "dict")
        => OneEventForStay(EventsOf(j), MappedOf(j).v.arrival, MappedOf(j).v.departure)

=============================================================================
